---- MODULE Spec2Model ----
(***************************************************************************)
(* The background-removal pipeline of the image converter (the App         *)
(* component): removeBackground and its stages createInitialMask,          *)
(* refineMaskWithEdges, applyMorphologicalOperations, applyMaskToImage and *)
(* featherMaskEdges, over a flat RGBA byte buffer; refineMask, which has   *)
(* no caller; convertImage; and processBatch, applySettingsToSelected,     *)
(* handleFileSelect, removeImage and clearAll of the BatchProcessor.       *)
(*                                                                         *)
(* Buffers are functions over 0..n-1 (the typed arrays' indices).  A read  *)
(* outside a typed array yields undefined; arithmetic on it yields NaN and *)
(* every comparison with NaN is false.  Real-valued comparisons of the     *)
(* code are stated over the integers:                                      *)
(*   sqrt(d2) < t               <=>  d2 < t*t          (t an integer)      *)
(*   sqrt(d2) < t*1.5           <=>  4*d2 < 9*t*t                          *)
(*   count > width*height*0.05  <=>  20*count > width*height               *)
(*   sqrt(m2) > 255*(s10/10)    <=>  4*m2 > 2601*s10*s10                   *)
(* edgeSensitivity and maskContrast are kept in tenths (0.3 is 3).         *)
(***************************************************************************)
EXTENDS Integers, Sequences, FiniteSets, TLC

\* ------------------------------------------------------------------ state
VARIABLES
  selectedFile,            \* the image file chosen by the user
  backgroundOptions,       \* the option state of the component
  isRemovingBackground,    \* the busy flag
  pc,                      \* the position of removeBackground
  runOptions,              \* backgroundOptions as captured by the running call
  width, height,           \* canvas.width, canvas.height
  data,                    \* imageData.data
  workingData,             \* the working copy read by the mask stages
  mask,                    \* the mask
  canvasData,              \* the canvas after putImageData
  pendingBlobs,            \* toBlob calls whose callback has not run
  backgroundRemovedImage,  \* the pixels behind the result URL
  stagesRun,               \* history: the stages the current call has run
  maskIn,                  \* history: the mask on entry to the last mask stage
  dataIn,                  \* history: data on entry to the last buffer stage
  outLog,                  \* history: per configuration, the first final buffer
  stageLog,                \* history: per method, the stages of the last run
  images,                  \* BatchProcessor: the images prop (the parent's list)
  imagesRef,               \* BatchProcessor: imagesRef.current
  selectedImages,          \* BatchProcessor: the ids selected in the grid
  isProcessing,            \* BatchProcessor: the isProcessing prop
  batchPc,                 \* the position of processBatch
  imagesToProcess,         \* processBatch: the images captured by the call
  processedCount,          \* processBatch: its counter
  atCall,                  \* history: images, selectedImages at the last call
  outcomes,                \* history: <<id, outcome>> of each processImage call
  globalSettings,          \* BatchProcessor: the settings of the settings panel
  fileSelects,             \* handleFileSelect calls awaiting the dimensions
  idCount,                 \* the number of ids handed out so far
  removedIds,              \* history: the ids removed by removeImage, clearAll
  loadedIds,               \* history: the ids whose dimensions were loaded
  selectedFormat,          \* the output format chosen by the user
  isConverting,            \* the busy flag of convertImage
  conversions,             \* the convertImage calls and the position of each
  convertedImage           \* the converted image offered for download

editVars == <<globalSettings, fileSelects, idCount, removedIds, loadedIds>>

batchVars == <<images, imagesRef, selectedImages, isProcessing, batchPc,
               imagesToProcess, processedCount, atCall, outcomes, editVars>>

convertVars == <<selectedFormat, isConverting, conversions, convertedImage>>

vars == <<selectedFile, backgroundOptions, isRemovingBackground, pc, runOptions,
          width, height, data, workingData, mask, canvasData, pendingBlobs,
          backgroundRemovedImage, stagesRun, maskIn, dataIn, outLog, stageLog,
          batchVars, convertVars>>

\* ---------------------------------------------------------------- bounds
MaxW == 4
MaxH == 4
MaxSpeckles == 2
MaxTransitional == 1
MaxImages == 3
MaxConversions == 2
MaxIds == 4
MaxFileSelects == 2
MaxPixels == 12

\* ------------------------------------------------------ program constants
DefaultColorThreshold == 40
DefaultEdgeSensitivity == 3
DefaultFeatherAmount == 3
DefaultMaskContrast == 12
QuantStep == 8
EdgeDiffLimit == 100
TopColors == 5

None == <<>>

Abs(n) == IF n < 0 THEN -n ELSE n
Max2(a, b) == IF a > b THEN a ELSE b
Min2(a, b) == IF a < b THEN a ELSE b

\* ----------------------------------------------------------------- images
\* A pixel is <<r, g, b, a>>; an image file is [w, h, px] with px over 0..w*h-1.
Black == <<0, 0, 0, 255>>
White == <<255, 255, 255, 255>>
Red == <<255, 0, 0, 255>>
Grey == <<30, 30, 30, 128>>
Palette == {Black, White, Red, Grey}
\* <<base colour, rectangle colour>>
RectPairs == {<<Black, White>>, <<Black, Grey>>, <<White, Black>>}

RectImage(w, h, base, c, x0, x1, y0, y1) ==
  [w |-> w, h |-> h,
   px |-> [p \in 0..(w * h - 1) |->
             IF /\ x0 <= p % w /\ p % w <= x1
                /\ y0 <= p \div w /\ p \div w <= y1
             THEN c ELSE base]]

SolidImage(w, h, c) == RectImage(w, h, c, c, 0, 0, 0, 0)

\* every image of at most MaxW x MaxH pixels that is one axis-aligned
\* rectangle of a palette colour on a base colour, and every solid image
RectImages ==
  UNION {UNION {{RectImage(w, h, bc[1], bc[2], x0, x1, y0, y1) :
                   x0 \in 0..(w - 1), x1 \in 0..(w - 1),
                   y0 \in 0..(h - 1), y1 \in 0..(h - 1)} :
                bc \in RectPairs} :
         w \in 1..MaxW, h \in 1..MaxH}

SolidImages == {SolidImage(w, h, c) : w \in 1..MaxW, h \in 1..MaxH, c \in Palette}

\* a 10x10 black image with one 2x2 white square at its centre
ScenarioB == RectImage(10, 10, Black, White, 4, 5, 4, 5)

\* an 8x4 image whose 12 interior pixels fall into six colour buckets of two
\* pixels each, neighbouring buckets 16 apart in red
SixBuckets ==
  [w |-> 8, h |-> 4,
   px |-> [p \in 0..31 |-> <<16 * Max2(0, Min2(5, (p % 8) - 1)), 0, 0, 255>>]]

Images == RectImages \cup SolidImages \cup {ScenarioB, SixBuckets}

\* ctx.getImageData(0, 0, canvas.width, canvas.height).data after drawImage
GetImageData(img) ==
  [i \in 0..(img.w * img.h * 4 - 1) |-> img.px[i \div 4][(i % 4) + 1]]

\* ---------------------------------------------------------------- options
DefaultOptions ==
  [method |-> "auto", colorThreshold |-> DefaultColorThreshold,
   edgeSensitivity |-> DefaultEdgeSensitivity, featherEdges |-> TRUE,
   featherAmount |-> DefaultFeatherAmount, refineMask |-> TRUE,
   maskContrast |-> DefaultMaskContrast]

\* the sliders' extremes, reached through the option controls
StrictOptions == [DefaultOptions EXCEPT !.method = "color", !.colorThreshold = 10]
SharpOptions ==
  [DefaultOptions EXCEPT !.method = "ai", !.edgeSensitivity = 10,
                         !.featherEdges = FALSE]
OptionChoices == {DefaultOptions, StrictOptions, SharpOptions}

\* ------------------------------------------------------ createInitialMask
\* pixels with 1 <= x <= width-2 and 1 <= y <= height-2
Interior(w, h) ==
  {p \in 0..(w * h - 1) :
     /\ 1 <= p % w /\ p % w <= w - 2
     /\ 1 <= p \div w /\ p \div w <= h - 2}

\* `${n}`: the decimal digits of a non-negative integer
RECURSIVE Dec(_)
Dec(n) ==
  LET d == <<"0", "1", "2", "3", "4", "5", "6", "7", "8", "9">>
  IN IF n < 10 THEN <<d[n + 1]>> ELSE Dec(n \div 10) \o <<d[(n % 10) + 1]>>

\* `${Math.floor(r / 8)},${Math.floor(g / 8)},${Math.floor(b / 8)}`
ColorKey(r, g, b) ==
  Dec(r \div QuantStep) \o <<",">> \o Dec(g \div QuantStep) \o <<",">>
    \o Dec(b \div QuantStep)

\* String.split(','): the pieces between the commas
RECURSIVE Split(_)
Split(s) ==
  IF \A i \in 1..Len(s) : s[i] # ","
  THEN <<s>>
  ELSE LET c == CHOOSE i \in 1..Len(s) :
                  s[i] = "," /\ \A j \in 1..(i - 1) : s[j] # ","
       IN <<SubSeq(s, 1, c - 1)>> \o Split(SubSeq(s, c + 1, Len(s)))

\* Number(s) of a string of decimal digits
RECURSIVE Number(_)
Number(s) ==
  LET v(ch) == CHOOSE n \in 0..9 : Dec(n) = <<ch>>
  IN IF s = <<>> THEN 0
     ELSE 10 * Number(SubSeq(s, 1, Len(s) - 1)) + v(s[Len(s)])

\* colorKey.split(',').map(Number)
ParseKey(k) == LET parts == Split(k) IN [i \in 1..Len(parts) |-> Number(parts[i])]

KeyAt(d, p) == ColorKey(d[p * 4], d[p * 4 + 1], d[p * 4 + 2])

\* the summed absolute channel difference to the 4 direct neighbours
ColorDiff(d, w, p) ==
  LET i == p * 4
      ch(n, k) == Abs(d[i + k] - d[n * 4 + k])
      nb(n) == ch(n, 0) + ch(n, 1) + ch(n, 2)
  IN nb(p - 1) + nb(p + 1) + nb(p - w) + nb(p + w)

\* edgePixels after the first pass
EdgePixels(d, w, h) == {p \in Interior(w, h) : ColorDiff(d, w, p) > EdgeDiffLimit}

\* colorHistogram after the first pass: bucket key -> count, with the position
\* of the key in the Map's insertion order (the first interior pixel with it)
ColorHistogram(d, w, h) ==
  LET keyOf == [p \in Interior(w, h) |-> KeyAt(d, p)]
      keys == {keyOf[p] : p \in Interior(w, h)}
  IN [k \in keys |->
        LET ps == {p \in Interior(w, h) : keyOf[p] = k}
        IN [count |-> Cardinality(ps),
            first |-> CHOOSE p \in ps : \A q \in ps : p <= q]]

\* Array.from(entries).sort((a, b) => b[1] - a[1]).slice(0, 5): by count,
\* descending, equal counts in insertion order (the sort is stable)
SortedColors(hist) ==
  LET keys == DOMAIN hist
      before(a, b) ==
        \/ hist[a].count > hist[b].count
        \/ hist[a].count = hist[b].count /\ hist[a].first < hist[b].first
      rank(k) == Cardinality({a \in keys : before(a, k)})
  IN [i \in 1..Min2(TopColors, Cardinality(keys)) |->
        LET k == CHOOSE a \in keys : rank(a) = i - 1
        IN [key |-> k, count |-> hist[k].count]]

\* mutant: the bucket coordinate is used without de-quantizing
BucketCenterRaw(c) == c

\* the de-quantized value of a bucket coordinate: br * 8
BucketCenter(c) == c * QuantStep

\* squared distance of (r, g, b) to the de-quantized centre of a bucket key
Distance2(r, g, b, key) ==
  LET c == ParseKey(key)
      sq(x) == x * x
  IN sq(r - BucketCenter(c[1])) + sq(g - BucketCenter(c[2]))
       + sq(b - BucketCenter(c[3]))

\* mutant: isBackground starts out true when there is no colour to compare with
MatchesBackgroundOrNone(r, g, b, isEdge, sorted, threshold, w, h) ==
  \/ DOMAIN sorted = {}
  \/ \E i \in DOMAIN sorted :
       /\ Distance2(r, g, b, sorted[i].key) < threshold * threshold
       /\ 20 * sorted[i].count > w * h

\* isBackground after the loop over sortedColors, for a non-edge or edge pixel
MatchesBackground(r, g, b, isEdge, sorted, threshold, w, h) ==
  \E i \in DOMAIN sorted :
    /\ IF isEdge
       THEN 4 * Distance2(r, g, b, sorted[i].key) < 9 * threshold * threshold
       ELSE Distance2(r, g, b, sorted[i].key) < threshold * threshold
    /\ 20 * sorted[i].count > w * h

\* mutant: the mask buffer of the previous call is reused and only cleared
\* where the pixel is background
CreateInitialMaskReused(d, w, h, threshold) ==
  LET edges == EdgePixels(d, w, h)
      sorted == SortedColors(ColorHistogram(d, w, h))
  IN [p \in 0..(w * h - 1) |->
        LET isEdge == p \in edges
            matched == MatchesBackground(d[p * 4], d[p * 4 + 1], d[p * 4 + 2],
                                         isEdge, sorted, threshold, w, h)
            isBackground == IF isEdge THEN FALSE ELSE matched
        IN IF isBackground /\ ~(p \in DOMAIN mask /\ mask[p] = 255)
           THEN 0 ELSE 255]

\* mutant: an edge pixel that matches under the lenient threshold is background
CreateInitialMaskLenient(d, w, h, threshold) ==
  LET edges == EdgePixels(d, w, h)
      sorted == SortedColors(ColorHistogram(d, w, h))
  IN [p \in 0..(w * h - 1) |->
        IF MatchesBackground(d[p * 4], d[p * 4 + 1], d[p * 4 + 2], p \in edges,
                             sorted, threshold, w, h)
        THEN 0 ELSE 255]

CreateInitialMask(d, w, h, threshold) ==
  LET edges == EdgePixels(d, w, h)
      sorted == SortedColors(ColorHistogram(d, w, h))
  IN [p \in 0..(w * h - 1) |->
        LET isEdge == p \in edges
            matched == MatchesBackground(d[p * 4], d[p * 4 + 1], d[p * 4 + 2],
                                         isEdge, sorted, threshold, w, h)
            isBackground == IF isEdge THEN FALSE ELSE matched
        IN IF isBackground THEN 0 ELSE 255]

\* ---------------------------------------------------- refineMaskWithEdges
\* the buffer indices read for gx: red of (x-1, y+k) and (x+1, y+k), k = 0, 1, 2
GxReads(w, p) ==
  LET idx == p * 4
  IN {idx - 4, idx + 4, idx - 4 + w * 4, idx + 4 + w * 4,
      idx - 4 + w * 8, idx + 4 + w * 8}

\* the buffer indices read for gy: red, green and blue of (x, y-1) and (x, y+1)
GyReads(w, p) ==
  LET idx == p * 4
  IN {idx - w * 4, idx + w * 4, idx + 1 - w * 4, idx + 1 + w * 4,
      idx + 2 - w * 4, idx + 2 + w * 4}

\* mutant: gx over the rows y-1, y, y+1
GxCentred(d, w, p) ==
  LET idx == p * 4
  IN (0 - d[idx - 4 - w * 4]) + d[idx + 4 - w * 4]
       + (0 - 2 * d[idx - 4]) + 2 * d[idx + 4]
       + (0 - d[idx - 4 + w * 4]) + d[idx + 4 + w * 4]

Gx(d, w, p) ==
  LET idx == p * 4
  IN (0 - d[idx - 4]) + d[idx + 4]
       + (0 - 2 * d[idx - 4 + w * 4]) + 2 * d[idx + 4 + w * 4]
       + (0 - d[idx - 4 + w * 8]) + d[idx + 4 + w * 8]

Gy(d, w, p) ==
  LET idx == p * 4
  IN (0 - d[idx - w * 4]) + d[idx + w * 4]
       + (0 - 2 * d[idx + 1 - w * 4]) + 2 * d[idx + 1 + w * 4]
       + (0 - d[idx + 2 - w * 4]) + d[idx + 2 + w * 4]

\* mutant: the edge mask keeps the gradient strength instead of 255
EdgeValueStrength(d, w, p, sensitivity) ==
  IF \E i \in GxReads(w, p) \cup GyReads(w, p) : i \notin DOMAIN d
  THEN 0
  ELSE IF 4 * (Gx(d, w, p) * Gx(d, w, p) + Gy(d, w, p) * Gy(d, w, p))
            > 2601 * sensitivity * sensitivity
       THEN Min2(255, (Abs(Gx(d, w, p)) + Abs(Gy(d, w, p))) \div 16) ELSE 0

\* edgeMask[y * width + x] of an interior pixel: a read outside the buffer is
\* undefined, the sum NaN, the magnitude NaN and `NaN > ...` false
EdgeValue(d, w, p, sensitivity) ==
  IF \E i \in GxReads(w, p) \cup GyReads(w, p) : i \notin DOMAIN d
  THEN 0
  ELSE IF 4 * (Gx(d, w, p) * Gx(d, w, p) + Gy(d, w, p) * Gy(d, w, p))
            > 2601 * sensitivity * sensitivity
       THEN 255 ELSE 0

EdgeMask(d, w, h, sensitivity) ==
  [p \in 0..(w * h - 1) |->
     IF p \in Interior(w, h) THEN EdgeValue(d, w, p, sensitivity) ELSE 0]

\* mutant: the edge value is assigned instead of maximised
RefinedValueAssigned(maskValue, edgeValue) == edgeValue

\* mask[pixelIdx] after the second loop, given edgeValue
RefinedValue(maskValue, edgeValue) ==
  IF edgeValue > 0 THEN Max2(maskValue, edgeValue) ELSE maskValue

RefineMaskWithEdges(m, d, w, h, sensitivity) ==
  LET edgeMask == EdgeMask(d, w, h, sensitivity)
  IN [p \in DOMAIN m |-> RefinedValue(m[p], edgeMask[p])]

\* ------------------------------------------- applyMorphologicalOperations
\* the pixels (nx, ny) of the 3x3 neighbourhood that pass the bounds test
Neighbourhood(p, w, h) ==
  {ny * w + nx : nx \in {x \in ((p % w) - 1)..((p % w) + 1) : x >= 0 /\ x < w},
                 ny \in {y \in ((p \div w) - 1)..((p \div w) + 1) : y >= 0 /\ y < h}}

MinOver(m, ps) == IF \E q \in ps : m[q] < 255
                  THEN CHOOSE v \in {m[q] : q \in ps} : \A q \in ps : v <= m[q]
                  ELSE 255

MaxOver(m, ps) == IF \E q \in ps : m[q] > 0
                  THEN CHOOSE v \in {m[q] : q \in ps} : \A q \in ps : v >= m[q]
                  ELSE 0

\* mutant: the first loop takes the maximum
ErodedMax(m, w, h) ==
  [p \in DOMAIN m |->
     IF p \in Interior(w, h) THEN MaxOver(m, Neighbourhood(p, w, h)) ELSE m[p]]

\* mutant: no erosion
ErodedNone(m, w, h) == m

\* eroded: a copy of the mask with every interior pixel set to the minimum
Eroded(m, w, h) ==
  [p \in DOMAIN m |->
     IF p \in Interior(w, h) THEN MinOver(m, Neighbourhood(p, w, h)) ELSE m[p]]

\* mutant: the dilation loop also rewrites the outermost ring
DilatedAll(m, eroded, w, h) ==
  [p \in DOMAIN m |-> MaxOver(eroded, Neighbourhood(p, w, h))]

\* mutant: no dilation
DilatedNone(m, eroded, w, h) == eroded

\* the mask after the dilation loop, which reads eroded and writes the mask
Dilated(m, eroded, w, h) ==
  [p \in DOMAIN m |->
     IF p \in Interior(w, h) THEN MaxOver(eroded, Neighbourhood(p, w, h)) ELSE m[p]]

\* mutant: the stage stops after the erosion
ErosionOnly(m, w, h) == Eroded(m, w, h)

ApplyMorphologicalOperations(m, w, h) == Dilated(m, Eroded(m, w, h), w, h)

\* -------------------------------------------------------- applyMaskToImage
\* mutant: the mask value lands on the blue byte
AlphaIndexBlue(i) == i + 2

\* the byte index that receives the mask value of pixel i / 4
AlphaIndex(i) == i + 3

\* mutant: the alpha becomes the complement of the mask value
ApplyMaskToImageInverted(d, m) ==
  [j \in DOMAIN d |->
     IF j % 4 = 3 /\ j \div 4 \in DOMAIN m THEN 255 - m[j \div 4] ELSE d[j]]

\* mutant: the mask only lowers the alpha the pixel already has
ApplyMaskToImageBlend(d, m) ==
  [j \in DOMAIN d |->
     IF j % 4 = 3 /\ j \div 4 \in DOMAIN m THEN Min2(d[j], m[j \div 4]) ELSE d[j]]

ApplyMaskToImage(d, m) ==
  [j \in DOMAIN d |->
     IF \E i \in (j - 3)..j : i \in DOMAIN d /\ i % 4 = 0 /\ AlphaIndex(i) = j
     THEN LET i == CHOOSE i \in (j - 3)..j :
                     i \in DOMAIN d /\ i % 4 = 0 /\ AlphaIndex(i) = j
          IN IF i \div 4 \in DOMAIN m THEN m[i \div 4] ELSE 0
     ELSE d[j]]

\* -------------------------------------------------------- featherMaskEdges
\* Weights are kept in thousandths, the square root rounded down.
RECURSIVE ISqrtIn(_, _, _)
ISqrtIn(n, lo, hi) ==
  IF lo >= hi THEN lo
  ELSE LET mid == (lo + hi + 1) \div 2
       IN IF mid * mid <= n THEN ISqrtIn(n, mid, hi) ELSE ISqrtIn(n, lo, mid - 1)

\* the largest r with r * r <= n (46340 * 46340 is the largest 32-bit square)
ISqrt(n) == ISqrtIn(n, 0, Min2(n, 46340))

\* Math.max(0, 1 - Math.sqrt(dx * dx + dy * dy) / featherAmount)
Weight(dx, dy, featherAmount) ==
  LET scale == 1000
  IN Max2(0, scale - (ISqrt((dx * dx + dy * dy) * scale * scale)
                        \div featherAmount))

RECURSIVE SumOver(_, _)
SumOver(f, S) ==
  IF S = {} THEN 0
  ELSE LET x == CHOOSE x \in S : TRUE IN f[x] + SumOver(f, S \ {x})

\* tempData[idx + 3] of a pixel whose alpha is strictly between 0 and 255
FeatheredAlpha(d, w, h, p, featherAmount) ==
  LET x == p % w
      y == p \div w
      window == {q \in 0..(w * h - 1) :
                   /\ Abs((q % w) - x) <= featherAmount
                   /\ Abs((q \div w) - y) <= featherAmount}
      weight == [q \in window |-> Weight((q % w) - x, (q \div w) - y, featherAmount)]
      totalWeight == SumOver(weight, window)
      weightedSum == SumOver([q \in window |-> d[q * 4 + 3] * weight[q]], window)
  IN IF totalWeight > 0
     THEN Max2(0, Min2(255, (2 * weightedSum + totalWeight) \div (2 * totalWeight)))
     ELSE d[p * 4 + 3]

\* mutant: opaque pixels are feathered too
IsTransitionalOrOpaque(alpha) == alpha > 0

\* whether the pixel with this alpha is feathered
IsTransitional(alpha) == alpha > 0 /\ alpha < 255

FeatherMaskEdges(d, w, h, featherAmount) ==
  [i \in DOMAIN d |->
     IF i % 4 = 3 /\ i \div 4 < w * h /\ IsTransitional(d[i])
     THEN FeatheredAlpha(d, w, h, i \div 4, featherAmount)
     ELSE d[i]]

\* --------------------------------------------------------------- refineMask
\* newAlpha is kept in twentieths, contrast in tenths:
\*   ((alpha / 255 - 0.5) * contrast + 0.5) * 255
\*     = ((2 * alpha - 255) * contrast10 + 2550) / 20
ContrastStretched(alpha, contrast10) == (2 * alpha - 255) * contrast10 + 2550

\* Math.max(0, Math.min(255, newAlpha)), in twentieths
ClampAlpha(n20) == Max2(0, Min2(255 * 20, n20))

\* mutant: no hard threshold
ThresholdedNone(n20) == n20

\* if (newAlpha < 128) newAlpha = 0; else if (newAlpha > 128) newAlpha = 255;
Thresholded(n20) ==
  IF n20 < 128 * 20 THEN 0 ELSE IF n20 > 128 * 20 THEN 255 * 20 ELSE n20

\* the store into a Uint8ClampedArray: the nearest integer, a tie to the even one
StoreClamped(n20) ==
  LET q == n20 \div 20
      r == n20 % 20
  IN IF r < 10 THEN q ELSE IF r > 10 THEN q + 1 ELSE q + (q % 2)

\* data[i + 3] after the loop body
RefinedAlpha(alpha, contrast10) ==
  IF alpha > 0
  THEN StoreClamped(Thresholded(ClampAlpha(ContrastStretched(alpha, contrast10))))
  ELSE alpha

RefineMask(d, contrast10) ==
  [i \in DOMAIN d |-> IF i % 4 = 3 THEN RefinedAlpha(d[i], contrast10) ELSE d[i]]

\* ---------------------------------------------------------- removeBackground
NoFile == [w |-> 0, h |-> 0, px |-> <<>>]

\* the values of the Removal Method select
Methods == {"auto", "color", "edge", "ai"}

\* useState({ format: 'jpeg', resizePercentage: 100, ... })
DefaultGlobalSettings == [format |-> "jpeg", resizePercentage |-> 100]

\* the BatchProcessor of a page on which no batch image was ever added
BatchIdle ==
  /\ globalSettings = DefaultGlobalSettings /\ fileSelects = {}
  /\ idCount = 0 /\ removedIds = {} /\ loadedIds = {}
  /\ images = <<>> /\ imagesRef = <<>> /\ selectedImages = {}
  /\ isProcessing = FALSE /\ batchPc = "idle"
  /\ imagesToProcess = <<>> /\ processedCount = 0
  /\ atCall = None /\ outcomes = <<>>

\* the converter of a page on which Convert was never clicked
ConvertIdle ==
  /\ selectedFormat = "jpeg" /\ isConverting = FALSE
  /\ conversions = <<>> /\ convertedImage = None

fileVars == <<selectedFile, backgroundOptions>>
resultVars == <<canvasData, pendingBlobs, backgroundRemovedImage, outLog, stageLog>>

Init ==
  /\ selectedFile \in Images
  /\ backgroundOptions \in OptionChoices
  /\ isRemovingBackground = FALSE
  /\ pc = "idle"
  /\ runOptions = DefaultOptions
  /\ width = 0 /\ height = 0
  /\ data = None /\ workingData = None /\ mask = None
  /\ canvasData = None /\ pendingBlobs = <<>> /\ backgroundRemovedImage = None
  /\ stagesRun = <<>> /\ maskIn = None /\ dataIn = None
  /\ outLog = [o \in OptionChoices |-> None]
  /\ stageLog = [m \in Methods |-> None]
  /\ BatchIdle
  /\ ConvertIdle

\* removeBackground up to the await of the image load; the button is disabled
\* while isRemovingBackground, and the model lets the user click only once
\* the previous result has arrived
RemoveBackground ==
  /\ pc = "idle"
  /\ ~isRemovingBackground
  /\ selectedFile # NoFile
  /\ pendingBlobs = <<>>
  /\ isRemovingBackground' = TRUE
  /\ runOptions' = backgroundOptions
  /\ stagesRun' = <<>>
  /\ pc' = "loading"
  /\ UNCHANGED <<batchVars, convertVars>>
  /\ UNCHANGED <<fileVars, width, height, data, workingData, mask, maskIn, dataIn,
                 resultVars>>

\* img.onload: the canvas is sized, the image drawn and read back, and copied
ImageLoaded ==
  /\ pc = "loading"
  /\ width' = selectedFile.w
  /\ height' = selectedFile.h
  /\ data' = GetImageData(selectedFile)
  /\ workingData' = GetImageData(selectedFile)
  /\ pc' = "createInitialMask"
  /\ UNCHANGED <<batchVars, convertVars>>
  /\ UNCHANGED <<fileVars, isRemovingBackground, runOptions, mask, maskIn, dataIn,
                 stagesRun, resultVars>>

StepCreateInitialMask ==
  /\ pc = "createInitialMask"
  /\ maskIn' = [p \in 0..(width * height - 1) |-> 0]
  /\ mask' = CreateInitialMask(workingData, width, height, runOptions.colorThreshold)
  /\ stagesRun' = Append(stagesRun, "createInitialMask")
  /\ pc' = "refineMaskWithEdges"
  /\ UNCHANGED <<batchVars, convertVars>>
  /\ UNCHANGED <<fileVars, isRemovingBackground, runOptions, width, height, data,
                 workingData, dataIn, resultVars>>

StepRefineMaskWithEdges ==
  /\ pc = "refineMaskWithEdges"
  /\ maskIn' = mask
  /\ mask' = RefineMaskWithEdges(mask, workingData, width, height,
                                 runOptions.edgeSensitivity)
  /\ stagesRun' = Append(stagesRun, "refineMaskWithEdges")
  /\ pc' = "applyMorphologicalOperations"
  /\ UNCHANGED <<batchVars, convertVars>>
  /\ UNCHANGED <<fileVars, isRemovingBackground, runOptions, width, height, data,
                 workingData, dataIn, resultVars>>

StepApplyMorphologicalOperations ==
  /\ pc = "applyMorphologicalOperations"
  /\ maskIn' = mask
  /\ mask' = ApplyMorphologicalOperations(mask, width, height)
  /\ stagesRun' = Append(stagesRun, "applyMorphologicalOperations")
  /\ pc' = "applyMaskToImage"
  /\ UNCHANGED <<batchVars, convertVars>>
  /\ UNCHANGED <<fileVars, isRemovingBackground, runOptions, width, height, data,
                 workingData, dataIn, resultVars>>

StepApplyMaskToImage ==
  /\ pc = "applyMaskToImage"
  /\ dataIn' = data
  /\ data' = ApplyMaskToImage(data, mask)
  /\ stagesRun' = Append(stagesRun, "applyMaskToImage")
  /\ pc' = "featherMaskEdges"
  /\ UNCHANGED <<batchVars, convertVars>>
  /\ UNCHANGED <<fileVars, isRemovingBackground, runOptions, width, height,
                 workingData, mask, maskIn, resultVars>>

\* if (backgroundOptions.featherEdges) featherMaskEdges(...)
StepFeatherMaskEdges ==
  /\ pc = "featherMaskEdges"
  /\ runOptions.featherEdges
  /\ dataIn' = data
  /\ data' = FeatherMaskEdges(data, width, height, runOptions.featherAmount)
  /\ stagesRun' = Append(stagesRun, "featherMaskEdges")
  /\ pc' = "putImageData"
  /\ UNCHANGED <<batchVars, convertVars>>
  /\ UNCHANGED <<fileVars, isRemovingBackground, runOptions, width, height,
                 workingData, mask, maskIn, resultVars>>

\* mutant: the feathering is skipped whatever featherEdges is
SkipFeatherUnguarded ==
  /\ pc = "featherMaskEdges"
  /\ pc' = "putImageData"
  /\ UNCHANGED <<batchVars, convertVars>>
  /\ UNCHANGED <<fileVars, isRemovingBackground, runOptions, width, height, data,
                 workingData, mask, maskIn, dataIn, stagesRun, resultVars>>

SkipFeatherMaskEdges ==
  /\ pc = "featherMaskEdges"
  /\ ~runOptions.featherEdges
  /\ pc' = "putImageData"
  /\ UNCHANGED <<batchVars, convertVars>>
  /\ UNCHANGED <<fileVars, isRemovingBackground, runOptions, width, height, data,
                 workingData, mask, maskIn, dataIn, stagesRun, resultVars>>

\* putImageData, the toBlob call and the finally block
PutImageData ==
  /\ pc = "putImageData"
  /\ canvasData' = data
  /\ pendingBlobs' = Append(pendingBlobs, data)
  /\ outLog' = IF runOptions \in DOMAIN outLog /\ outLog[runOptions] = None
               THEN [outLog EXCEPT ![runOptions] = data] ELSE outLog
  /\ stageLog' = [stageLog EXCEPT ![runOptions.method] = stagesRun]
  /\ isRemovingBackground' = FALSE
  /\ pc' = "idle"
  /\ UNCHANGED <<batchVars, convertVars>>
  /\ UNCHANGED <<fileVars, runOptions, width, height, data, workingData, mask,
                 maskIn, dataIn, stagesRun, backgroundRemovedImage>>

\* the toBlob callback: setBackgroundRemovedImage(url)
ToBlobCallback ==
  /\ pendingBlobs # <<>>
  /\ backgroundRemovedImage' = Head(pendingBlobs)
  /\ pendingBlobs' = Tail(pendingBlobs)
  /\ UNCHANGED <<batchVars, convertVars>>
  /\ UNCHANGED <<fileVars, isRemovingBackground, pc, runOptions, width, height,
                 data, workingData, mask, maskIn, dataIn, stagesRun, canvasData,
                 outLog, stageLog>>

Next ==
  \/ RemoveBackground
  \/ ImageLoaded
  \/ StepCreateInitialMask
  \/ StepRefineMaskWithEdges
  \/ StepApplyMorphologicalOperations
  \/ StepApplyMaskToImage
  \/ StepFeatherMaskEdges
  \/ SkipFeatherMaskEdges
  \/ PutImageData
  \/ ToBlobCallback

Spec == Init /\ [][Next]_vars

\* onChange of the option controls: the options become another configuration
SetBackgroundOptions ==
  /\ pc \in {"idle", "loading"}
  /\ \E o \in OptionChoices \ {backgroundOptions} : backgroundOptions' = o
  /\ UNCHANGED <<batchVars, convertVars>>
  /\ UNCHANGED <<selectedFile, isRemovingBackground, pc, runOptions, width, height,
                 data, workingData, mask, maskIn, dataIn, stagesRun, resultVars>>

\* repeated removals of one file under changing options
RerunImages == SolidImages \cup {ScenarioB, SixBuckets}

InitRerun ==
  /\ Init
  /\ selectedFile \in RerunImages
  /\ backgroundOptions = DefaultOptions

NextRerun == Next \/ SetBackgroundOptions

SpecRerun == InitRerun /\ [][NextRerun]_vars

\* onChange of the Removal Method select: only the method changes
SetMethod ==
  /\ pc \in {"idle", "loading"}
  /\ \E m \in Methods \ {backgroundOptions.method} :
       backgroundOptions' = [backgroundOptions EXCEPT !.method = m]
  /\ UNCHANGED <<batchVars, convertVars>>
  /\ UNCHANGED <<selectedFile, isRemovingBackground, pc, runOptions, width, height,
                 data, workingData, mask, maskIn, dataIn, stagesRun, resultVars>>

\* repeated removals of one file under options that differ only in the method
MethodImages ==
  {RectImage(3, 3, Black, White, 2, 2, 2, 2), SixBuckets, SolidImage(3, 3, Red),
   SolidImage(1, 1, Black)}

InitMethod ==
  /\ Init
  /\ selectedFile \in MethodImages

NextMethod == Next \/ SetMethod

SpecMethod == InitMethod /\ [][NextMethod]_vars

\* removals of the images of at most MaxPixels pixels
SmallImages == {img \in Images : img.w * img.h <= MaxPixels}

InitSmall ==
  /\ Init
  /\ selectedFile \in SmallImages

SpecSmall == InitSmall /\ [][Next]_vars

\* the image never loads (previewUrl is null or the file does not decode): the
\* promise of the await has no onerror and is never resolved, so the function
\* stays suspended at the await
ImageLoadFailed ==
  /\ pc = "loading"
  /\ pc' = "awaitingOnload"
  /\ UNCHANGED <<batchVars, convertVars>>
  /\ UNCHANGED <<fileVars, isRemovingBackground, runOptions, width, height, data,
                 workingData, mask, maskIn, dataIn, stagesRun, resultVars>>

\* the image loads and drawImage or getImageData throws: catch, then finally
ImageLoadedThrows ==
  /\ pc = "loading"
  /\ isRemovingBackground' = FALSE
  /\ pc' = "idle"
  /\ UNCHANGED <<batchVars, convertVars>>
  /\ UNCHANGED <<fileVars, runOptions, width, height, data, workingData, mask,
                 maskIn, dataIn, stagesRun, resultVars>>

\* removals in which the image load can succeed, fail or be followed by a throw
LoadImages == {img \in SolidImages : img.w * img.h <= 2}

InitLoad ==
  /\ Init
  /\ selectedFile \in LoadImages

NextLoad == Next \/ ImageLoadFailed \/ ImageLoadedThrows

\* the browser settles every image load; the event loop runs every
\* continuation and callback that is ready
FairLoad ==
  /\ WF_vars(ImageLoaded \/ ImageLoadFailed \/ ImageLoadedThrows)
  /\ WF_vars(StepCreateInitialMask)
  /\ WF_vars(StepRefineMaskWithEdges)
  /\ WF_vars(StepApplyMorphologicalOperations)
  /\ WF_vars(StepApplyMaskToImage)
  /\ WF_vars(StepFeatherMaskEdges \/ SkipFeatherMaskEdges)
  /\ WF_vars(PutImageData)
  /\ WF_vars(ToBlobCallback)

SpecLoad == InitLoad /\ [][NextLoad]_vars /\ FairLoad

\* ------------------------------------------------- single stages, any input
\* the sets of at most n pixels of a w x h grid
PixelSets(w, h, n) ==
  {{}} \cup {{f[i] : i \in 1..n} : f \in [1..n -> 0..(w * h - 1)]}

\* the masks that are `base` except on at most MaxSpeckles pixels
SpeckleMasks(w, h) ==
  {[p \in 0..(w * h - 1) |-> IF p \in S THEN 255 - base ELSE base] :
     S \in PixelSets(w, h, MaxSpeckles), base \in {0, 255}}

StageInit(stage) ==
  /\ selectedFile = NoFile
  /\ backgroundOptions = DefaultOptions
  /\ isRemovingBackground = TRUE
  /\ pc = stage
  /\ workingData = None
  /\ canvasData = None /\ pendingBlobs = <<>> /\ backgroundRemovedImage = None
  /\ stagesRun = <<>> /\ maskIn = None /\ dataIn = None
  /\ outLog = [o \in OptionChoices |-> None]
  /\ stageLog = [m \in Methods |-> None]
  /\ BatchIdle
  /\ ConvertIdle

\* applyMorphologicalOperations on any speckle mask
InitMorph ==
  /\ StageInit("applyMorphologicalOperations")
  /\ runOptions = DefaultOptions
  /\ width \in 1..MaxW
  /\ height \in 1..MaxH
  /\ mask \in SpeckleMasks(width, height)
  /\ data = None

SpecMorph == InitMorph /\ [][StepApplyMorphologicalOperations]_vars

\* the masks whose foreground is one axis-aligned rectangle (or nothing)
RectMasks(w, h) ==
  {[p \in 0..(w * h - 1) |->
      IF /\ x0 <= p % w /\ p % w <= x1 /\ y0 <= p \div w /\ p \div w <= y1
      THEN 255 ELSE 0] :
     x0 \in 0..(w - 1), x1 \in 0..(w - 1), y0 \in 0..(h - 1), y1 \in 0..(h - 1)}

\* applyMorphologicalOperations on any rectangle mask of up to two more
\* columns and rows than the images
InitMorphRect ==
  /\ StageInit("applyMorphologicalOperations")
  /\ runOptions = DefaultOptions
  /\ width \in 1..(MaxW + 2)
  /\ height \in 1..(MaxH + 2)
  /\ mask \in RectMasks(width, height)
  /\ data = None

SpecMorphRect == InitMorphRect /\ [][StepApplyMorphologicalOperations]_vars

\* the buffers whose alpha is `base` except on at most MaxTransitional pixels
AlphaBuffers(w, h) ==
  {[i \in 0..(w * h * 4 - 1) |->
      IF i % 4 = 3
      THEN (IF (i \div 4) \in S THEN v ELSE base)
      ELSE Red[(i % 4) + 1]] :
     S \in PixelSets(w, h, MaxTransitional), base \in {0, 255},
     v \in {0, 128, 255}}

\* featherMaskEdges on any such buffer, for every slider position
InitFeather ==
  /\ StageInit("featherMaskEdges")
  /\ runOptions \in {[DefaultOptions EXCEPT !.featherAmount = a] : a \in 1..8}
  /\ width \in 1..MaxW
  /\ height \in 1..MaxH
  /\ data \in AlphaBuffers(width, height)
  /\ mask = None

SpecFeather == InitFeather /\ [][StepFeatherMaskEdges]_vars

\* refineMask(data, width, height) as a call of its own: removeBackground has
\* no call of it
StepRefineMask ==
  /\ pc = "refineMask"
  /\ dataIn' = data
  /\ data' = RefineMask(data, runOptions.maskContrast)
  /\ stagesRun' = Append(stagesRun, "refineMask")
  /\ pc' = "refined"
  /\ UNCHANGED <<batchVars, convertVars>>
  /\ UNCHANGED <<fileVars, isRemovingBackground, runOptions, width, height,
                 workingData, mask, maskIn, resultVars>>

\* alphas around the threshold and at both ends
AlphaSamples == {0, 1, 127, 128, 129, 255}

\* one row of pixels whose alpha is `base` except on at most MaxTransitional
\* pixels (refineMask walks the buffer and reads neither width nor height)
ContrastBuffers(w) ==
  {[i \in 0..(w * 4 - 1) |->
      IF i % 4 = 3
      THEN (IF (i \div 4) \in S THEN v ELSE base)
      ELSE Red[(i % 4) + 1]] :
     S \in PixelSets(w, 1, MaxTransitional), base \in {0, 255},
     v \in AlphaSamples}

\* refineMask on any such buffer, for every position of the contrast slider
InitRefineMask ==
  /\ StageInit("refineMask")
  /\ runOptions \in {[DefaultOptions EXCEPT !.maskContrast = c] : c \in 5..20}
  /\ width \in 1..MaxW
  /\ height = 1
  /\ data \in ContrastBuffers(width)
  /\ mask = None

SpecRefineMask == InitRefineMask /\ [][StepRefineMask]_vars

\* ----------------------------------------------------------- BatchProcessor
\* A batch image is [id, originalWidth, progress, status, settings, converted,
\* error]; an optional field that is absent holds "undefined".
NewBatchImage(id, w) ==
  [id |-> id, originalWidth |-> w, progress |-> 0, status |-> "pending",
   settings |-> DefaultGlobalSettings,
   converted |-> "undefined", error |-> "undefined"]

\* { ...img, ...updates }
Merge(img, updates) ==
  [f \in DOMAIN img |-> IF f \in DOMAIN updates THEN updates[f] ELSE img[f]]

\* updateImage(id, updates): the list handed to onImagesChange, built from
\* imagesRef.current
UpdateImage(id, updates) ==
  [i \in DOMAIN imagesRef |->
     IF imagesRef[i].id = id THEN Merge(imagesRef[i], updates) ELSE imagesRef[i]]

\* mutant: the selection is ignored
ImagesToProcessAll(imgs, selected) == imgs

\* selectedImages.size > 0 ? images.filter(img => selectedImages.has(img.id))
\*                         : images
ImagesToProcess(imgs, selected) ==
  LET has(img) == img.id \in selected
  IN IF Cardinality(selected) > 0 THEN SelectSeq(imgs, has) ELSE imgs

\* imagesWithoutDimensions.length > 0
WithoutDimensions(imgs) == \E i \in DOMAIN imgs : imgs[i].originalWidth = 0

\* the messages processImage rejects with
RejectMessages ==
  {"Canvas context not available",
   "Failed to load image - check if image is valid"}

\* mutant: the catch block records nothing
ErrorUpdatesNone(message) == [progress |-> 0]

\* the updates of the catch block
ErrorUpdates(message) == [status |-> "error", error |-> message]

Ids(imgs) == {imgs[i].id : i \in DOMAIN imgs}

\* the state of the App component, which no BatchProcessor handler touches
pipelineVars ==
  <<fileVars, isRemovingBackground, pc, runOptions, width, height, data,
    workingData, mask, maskIn, dataIn, stagesRun, resultVars>>

\* useEffect(() => { imagesRef.current = images }, [images]) after a re-render
Render ==
  /\ imagesRef # images
  /\ imagesRef' = images
  /\ UNCHANGED <<images, selectedImages, isProcessing, batchPc, imagesToProcess,
                 processedCount, atCall, outcomes>>
  /\ UNCHANGED <<pipelineVars, convertVars, editVars>>

\* toggleImageSelection(id), clicked on the rendered grid
ToggleImageSelection ==
  /\ imagesRef = images
  /\ \E id \in Ids(images) :
       selectedImages' = IF id \in selectedImages
                         THEN selectedImages \ {id}
                         ELSE selectedImages \cup {id}
  /\ UNCHANGED <<images, imagesRef, isProcessing, batchPc, imagesToProcess,
                 processedCount, atCall, outcomes>>
  /\ UNCHANGED <<pipelineVars, convertVars, editVars>>

\* processBatch up to its first await, clicked on the rendered list: either
\* the early return, or the first iteration up to `await processImage`.  A
\* behaviour follows one batch that processes images; the batches after it are
\* covered by starting from the lists that earlier batches leave.
ProcessBatch ==
  /\ batchPc = "idle"
  /\ ~isProcessing
  /\ Len(images) # 0
  /\ imagesRef = images
  /\ outcomes = <<>>
  /\ LET toProcess == ImagesToProcess(images, selectedImages)
     IN /\ imagesToProcess' = toProcess
        /\ IF WithoutDimensions(toProcess) \/ Len(toProcess) = 0
           THEN /\ isProcessing' = FALSE
                /\ batchPc' = "idle"
                /\ images' = images
           ELSE /\ isProcessing' = TRUE
                /\ batchPc' = "processImage"
                /\ images' = UpdateImage(toProcess[1].id,
                                         [status |-> "processing", progress |-> 0])
  /\ processedCount' = 0
  /\ atCall' = [images |-> images, selectedImages |-> selectedImages]
  /\ outcomes' = <<>>
  /\ UNCHANGED <<imagesRef, selectedImages>>
  /\ UNCHANGED <<pipelineVars, convertVars, editVars>>

\* the image of the running iteration (both branches count it when they end)
CurrentImage == imagesToProcess[processedCount + 1]

\* `await processImage(latestImage, settings)` resolves with a blob
ProcessImageResolved ==
  /\ batchPc = "processImage"
  /\ images' = UpdateImage(CurrentImage.id,
                           [status |-> "completed", progress |-> 100,
                            converted |-> "blob"])
  /\ outcomes' = Append(outcomes, <<CurrentImage.id, "resolved">>)
  /\ processedCount' = processedCount + 1
  /\ batchPc' = "delay"
  /\ UNCHANGED <<imagesRef, selectedImages, isProcessing, imagesToProcess,
                 atCall>>
  /\ UNCHANGED <<pipelineVars, convertVars, editVars>>

\* processImage rejects (at once when there is no canvas context, later when
\* the image fails to load): the catch block
ProcessImageRejected ==
  /\ batchPc = "processImage"
  /\ \E message \in RejectMessages :
       /\ images' = UpdateImage(CurrentImage.id, ErrorUpdates(message))
       /\ outcomes' = Append(outcomes, <<CurrentImage.id, message>>)
  /\ processedCount' = processedCount + 1
  /\ batchPc' = "delay"
  /\ UNCHANGED <<imagesRef, selectedImages, isProcessing, imagesToProcess,
                 atCall>>
  /\ UNCHANGED <<pipelineVars, convertVars, editVars>>

\* the 100 ms delay has elapsed (the re-render and its effect ran within it)
\* and the loop goes on with the next image, up to `await processImage`
NextImage ==
  /\ batchPc = "delay"
  /\ imagesRef = images
  /\ processedCount < Len(imagesToProcess)
  /\ images' = UpdateImage(CurrentImage.id,
                           [status |-> "processing", progress |-> 0])
  /\ batchPc' = "processImage"
  /\ UNCHANGED <<imagesRef, selectedImages, isProcessing, imagesToProcess,
                 processedCount, atCall, outcomes>>
  /\ UNCHANGED <<pipelineVars, convertVars, editVars>>

\* the delay has elapsed after the last image: onProcessingChange(false)
BatchCompleted ==
  /\ batchPc = "delay"
  /\ imagesRef = images
  /\ processedCount >= Len(imagesToProcess)
  /\ isProcessing' = FALSE
  /\ batchPc' = "idle"
  /\ UNCHANGED <<images, imagesRef, selectedImages, imagesToProcess,
                 processedCount, atCall, outcomes>>
  /\ UNCHANGED <<pipelineVars, convertVars, editVars>>

NextBatch ==
  \/ Render
  \/ ToggleImageSelection
  \/ ProcessBatch
  \/ ProcessImageResolved
  \/ ProcessImageRejected
  \/ NextImage
  \/ BatchCompleted

\* an image as handleFileSelect leaves it (pending, its dimensions loaded or,
\* its load failed, still 0) or as an earlier batch left it (completed)
BatchImageKinds(id) ==
  {NewBatchImage(id, 0), NewBatchImage(id, 640),
   Merge(NewBatchImage(id, 640),
         [status |-> "completed", progress |-> 100, converted |-> "blob"])}

BatchLists ==
  UNION {{l \in [1..n -> UNION {BatchImageKinds(i) : i \in 1..n}] :
            \A i \in 1..n : l[i].id = i} :
         n \in 1..MaxImages}

InitBatch ==
  /\ selectedFile = NoFile
  /\ backgroundOptions = DefaultOptions
  /\ isRemovingBackground = FALSE
  /\ pc = "idle"
  /\ runOptions = DefaultOptions
  /\ width = 0 /\ height = 0
  /\ data = None /\ workingData = None /\ mask = None
  /\ canvasData = None /\ pendingBlobs = <<>> /\ backgroundRemovedImage = None
  /\ stagesRun = <<>> /\ maskIn = None /\ dataIn = None
  /\ outLog = [o \in OptionChoices |-> None]
  /\ stageLog = [m \in Methods |-> None]
  /\ images \in BatchLists
  /\ imagesRef = images
  /\ selectedImages = {}
  /\ isProcessing = FALSE /\ batchPc = "idle"
  /\ imagesToProcess = <<>> /\ processedCount = 0
  /\ atCall = None /\ outcomes = <<>>
  /\ globalSettings = DefaultGlobalSettings /\ fileSelects = {}
  /\ idCount = Len(images) /\ removedIds = {}
  /\ loadedIds = {images[i].id : i \in {j \in DOMAIN images : images[j].originalWidth > 0}}
  /\ ConvertIdle

SpecBatch == InitBatch /\ [][NextBatch]_vars

\* ------------------------------------- BatchProcessor: editing the list
processVars == <<isProcessing, batchPc, imagesToProcess, processedCount, atCall,
                 outcomes>>

\* the formats offered by the settings panel in the runs explored
SettingsFormats == {"jpeg", "png"}

\* onChange of the format select: setGlobalSettings(prev => ({ ...prev, format }))
SetGlobalSettings ==
  /\ \E f \in SettingsFormats \ {globalSettings.format} :
       globalSettings' = [globalSettings EXCEPT !.format = f]
  /\ UNCHANGED <<images, imagesRef, selectedImages, fileSelects, idCount,
                 removedIds, loadedIds>>
  /\ UNCHANGED <<processVars, pipelineVars, convertVars>>

\* the positions in the list of the selected images
SelectedAt(imgs, selected) == {i \in DOMAIN imgs : imgs[i].id \in selected}

\* images.forEach(image => { if (selectedImages.has(image.id)) updateImage(...) }):
\* every updateImage call maps the same imagesRef.current and hands its list to
\* onImagesChange (setBatchImages), so the list of the last call is the one set
AppliedSettings(imgs, selected, settings) ==
  LET at == SelectedAt(imgs, selected)
  IN IF at = {} THEN imgs
     ELSE LET last == CHOOSE i \in at : \A j \in at : j <= i
          IN UpdateImage(imgs[last].id, [settings |-> settings])

\* applySettingsToSelected, clicked on the rendered list (disabled while the
\* selection is empty)
ApplySettingsToSelected ==
  /\ selectedImages # {}
  /\ imagesRef = images
  /\ images' = AppliedSettings(images, selectedImages, globalSettings)
  /\ UNCHANGED <<imagesRef, selectedImages, editVars>>
  /\ UNCHANGED <<processVars, pipelineVars, convertVars>>

\* imagesWithDimensions: naturalWidth of the loaded image
WithDimensions(imgs) == [i \in DOMAIN imgs |-> [imgs[i] EXCEPT !.originalWidth = 640]]

\* handleFileSelect up to its await, for one image file: the new image is
\* appended to the images of this render, and the call keeps images and
\* newImages for its completion
HandleFileSelect ==
  /\ imagesRef = images
  /\ idCount < MaxIds
  /\ Cardinality(fileSelects) < MaxFileSelects
  /\ LET newImages == <<[NewBatchImage(idCount + 1, 0) EXCEPT !.settings = globalSettings]>>
     IN /\ images' = images \o newImages
        /\ fileSelects' = fileSelects \cup {[images |-> images, newImages |-> newImages]}
  /\ idCount' = idCount + 1
  /\ UNCHANGED <<imagesRef, selectedImages, globalSettings, removedIds, loadedIds>>
  /\ UNCHANGED <<processVars, pipelineVars, convertVars>>

\* Promise.all resolves: onImagesChange([...images, ...imagesWithDimensions])
\* with the images of the render in which the call was made
DimensionsLoaded ==
  /\ \E call \in fileSelects :
       /\ images' = call.images \o WithDimensions(call.newImages)
       /\ loadedIds' = loadedIds \cup Ids(call.newImages)
       /\ fileSelects' = fileSelects \ {call}
  /\ UNCHANGED <<imagesRef, selectedImages, globalSettings, idCount, removedIds>>
  /\ UNCHANGED <<processVars, pipelineVars, convertVars>>

\* Promise.all rejects: the catch block sets the same list with dimensions 0
DimensionsFailed ==
  /\ \E call \in fileSelects :
       /\ images' = call.images \o call.newImages
       /\ fileSelects' = fileSelects \ {call}
  /\ UNCHANGED <<imagesRef, selectedImages, globalSettings, idCount, removedIds,
                 loadedIds>>
  /\ UNCHANGED <<processVars, pipelineVars, convertVars>>

\* removeImage(id), clicked on the rendered grid
RemoveImage ==
  /\ imagesRef = images
  /\ \E id \in Ids(images) :
       /\ images' = SelectSeq(images, LAMBDA img : img.id # id)
       /\ selectedImages' = selectedImages \ {id}
       /\ removedIds' = removedIds \cup {id}
  /\ UNCHANGED <<imagesRef, globalSettings, fileSelects, idCount, loadedIds>>
  /\ UNCHANGED <<processVars, pipelineVars, convertVars>>

\* clearAll
ClearAll ==
  /\ imagesRef = images
  /\ images' = <<>>
  /\ selectedImages' = {}
  /\ removedIds' = removedIds \cup Ids(images)
  /\ UNCHANGED <<imagesRef, globalSettings, fileSelects, idCount, loadedIds>>
  /\ UNCHANGED <<processVars, pipelineVars, convertVars>>

\* settings applied to selections of a rendered list of loaded images
SettingsLists == {l \in BatchLists : \A i \in DOMAIN l : l[i] = NewBatchImage(i, 640)}

InitBatchSettings ==
  /\ InitBatch
  /\ images \in SettingsLists

NextBatchSettings ==
  \/ Render
  \/ ToggleImageSelection
  \/ SetGlobalSettings
  \/ ApplySettingsToSelected

SpecBatchSettings == InitBatchSettings /\ [][NextBatchSettings]_vars

\* files added to, and images removed from, a list of up to two loaded images
EditLists == {l \in SettingsLists : Len(l) <= 2}

InitBatchEdit ==
  /\ InitBatch
  /\ images \in EditLists

NextBatchEdit ==
  \/ Render
  \/ HandleFileSelect
  \/ DimensionsLoaded
  \/ DimensionsFailed
  \/ RemoveImage
  \/ ClearAll

SpecBatchEdit == InitBatchEdit /\ [][NextBatchEdit]_vars

\* ------------------------------------------------------------ convertImage
\* supportedFormats
Formats == {"jpeg", "png", "webp", "gif", "bmp"}

Extension(format) == IF format = "jpeg" THEN "jpg" ELSE format

\* if (format === 'jpeg' || format === 'webp')
IsCompressed(format) == format \in {"jpeg", "webp"}

\* the positions at which a call still has a callback to run
InFlight == {i \in DOMAIN conversions : conversions[i].at \in {"onload", "toBlob", "compress"}}

convertOthers == <<pipelineVars, batchVars>>

\* onClick of a format button
SetSelectedFormat ==
  /\ \E f \in Formats \ {selectedFormat} : selectedFormat' = f
  /\ UNCHANGED <<isConverting, conversions, convertedImage>>
  /\ UNCHANGED convertOthers

\* convertImage, entered from the Convert button (disabled while isConverting):
\* the function has no await, so setIsConverting(true), the registration of
\* img.onload and the setIsConverting(false) of the finally block run in one
\* synchronous pass and the flag is false again at the next render
ConvertImage ==
  /\ selectedFile # NoFile
  /\ ~isConverting
  /\ Len(conversions) < MaxConversions
  /\ conversions' = Append(conversions, [format |-> selectedFormat, at |-> "onload"])
  /\ isConverting' = FALSE
  /\ UNCHANGED <<selectedFormat, convertedImage>>
  /\ UNCHANGED convertOthers

\* img.onload: the image is drawn and canvas.toBlob is called
ConvertOnload ==
  /\ \E i \in DOMAIN conversions :
       /\ conversions[i].at = "onload"
       /\ conversions' = [conversions EXCEPT ![i].at = "toBlob"]
  /\ UNCHANGED <<selectedFormat, isConverting, convertedImage>>
  /\ UNCHANGED convertOthers

\* setConvertedImage({ blob: finalBlob, filename })
Stored(i) ==
  [format |-> conversions[i].format, extension |-> Extension(conversions[i].format),
   call |-> i]

\* the toBlob callback with a blob: compression is awaited for jpeg and webp,
\* the other formats are stored at once
ConvertToBlob ==
  /\ \E i \in DOMAIN conversions :
       /\ conversions[i].at = "toBlob"
       /\ IF IsCompressed(conversions[i].format)
          THEN /\ conversions' = [conversions EXCEPT ![i].at = "compress"]
               /\ UNCHANGED convertedImage
          ELSE /\ conversions' = [conversions EXCEPT ![i].at = "stored"]
               /\ convertedImage' = Stored(i)
  /\ UNCHANGED <<selectedFormat, isConverting>>
  /\ UNCHANGED convertOthers

\* the toBlob callback with null: nothing is stored
ConvertToBlobNull ==
  /\ \E i \in DOMAIN conversions :
       /\ conversions[i].at = "toBlob"
       /\ conversions' = [conversions EXCEPT ![i].at = "failed"]
  /\ UNCHANGED <<selectedFormat, isConverting, convertedImage>>
  /\ UNCHANGED convertOthers

\* imageCompression settles (a failure keeps the uncompressed blob)
ConvertCompressed ==
  /\ \E i \in DOMAIN conversions :
       /\ conversions[i].at = "compress"
       /\ conversions' = [conversions EXCEPT ![i].at = "stored"]
       /\ convertedImage' = Stored(i)
  /\ UNCHANGED <<selectedFormat, isConverting>>
  /\ UNCHANGED convertOthers

InitConvert ==
  /\ Init
  /\ selectedFile \in LoadImages
  /\ backgroundOptions = DefaultOptions

NextConvert ==
  \/ SetSelectedFormat
  \/ ConvertImage
  \/ ConvertOnload
  \/ ConvertToBlob
  \/ ConvertToBlobNull
  \/ ConvertCompressed

SpecConvert == InitConvert /\ [][NextConvert]_vars

\* ----------------------------------------------------------------- claims
Range(f) == {f[i] : i \in DOMAIN f}
AlphaAt(d, p) == d[p * 4 + 3]
Pixels == 0..(width * height - 1)
Binary(v) == v = 0 \/ v = 255
HasRun(stage) == stage \in Range(stagesRun)

\* C1: after applyMaskToImage (and featherMaskEdges), the buffer has the length
\* of the input and every R, G and B byte equals the input byte at its index.
C1_RgbPreserved ==
  LET input == GetImageData(selectedFile)
      same(d) == /\ DOMAIN d = DOMAIN input
                 /\ \A i \in DOMAIN input : i % 4 # 3 => d[i] = input[i]
  IN /\ HasRun("applyMaskToImage") => same(data)
     /\ canvasData # None => same(canvasData)
     /\ backgroundRemovedImage # None => same(backgroundRemovedImage)

C1_Witness ==
  /\ pc = "putImageData"
  /\ HasRun("featherMaskEdges")
  /\ \E i \in DOMAIN data : i % 4 = 3 /\ data[i] # GetImageData(selectedFile)[i]
  /\ \E i \in DOMAIN data : i % 4 # 3 /\ data[i] # 0

ScenarioBDone ==
  selectedFile = ScenarioB /\ runOptions = DefaultOptions /\ pc = "putImageData"

C3_Claimed ==
  (selectedFile.w < 2 \/ selectedFile.h < 2) =>
    /\ stagesRun = <<>>
    /\ canvasData = None
    /\ backgroundRemovedImage = None

SingleSpeckle(m, p) == m[p] = 255 /\ \A q \in DOMAIN m : q # p => m[q] = 0

\* C4 as claimed: a mask that is 0 except for one foreground pixel at any
\* position p is 0 at p after applyMorphologicalOperations.
C4_Claimed ==
  pc = "applyMaskToImage" =>
    \A p \in Pixels : SingleSpeckle(maskIn, p) => mask[p] = 0

\* C4 amended: a mask that is 0 except for one foreground pixel at an interior
\* position p (not on the outermost ring) is 0 at p, and everywhere, after
\* applyMorphologicalOperations.
C4_InteriorSpeckle ==
  pc = "applyMaskToImage" =>
    \A p \in Interior(width, height) :
      SingleSpeckle(maskIn, p) => \A q \in Pixels : mask[q] = 0

C4_Witness ==
  /\ pc = "applyMaskToImage"
  /\ \E p \in Interior(width, height) : SingleSpeckle(maskIn, p)

\* C5: every mask value is 0 or 255 after createInitialMask, after
\* refineMaskWithEdges and after applyMorphologicalOperations, and so is every
\* alpha byte written by applyMaskToImage.
C5_Binary ==
  /\ \A p \in DOMAIN mask : Binary(mask[p])
  /\ HasRun("applyMaskToImage") => \A p \in Pixels : Binary(AlphaAt(data, p))

C5_Witness ==
  /\ pc = "featherMaskEdges"
  /\ \E p \in Pixels : ~Binary(AlphaAt(dataIn, p))
  /\ \E p \in Pixels : mask[p] = 0
  /\ \E p \in Pixels : mask[p] = 255
  /\ mask # maskIn

\* C6: refineMaskWithEdges never lowers a mask value.
C6_Monotonic ==
  pc = "applyMorphologicalOperations" /\ HasRun("refineMaskWithEdges") =>
    \A p \in Pixels : mask[p] >= maskIn[p]

C6_Witness ==
  /\ pc = "applyMorphologicalOperations"
  /\ HasRun("refineMaskWithEdges")
  /\ \E p \in Pixels : maskIn[p] = 0 /\ mask[p] = 255
  /\ \E p \in Pixels : maskIn[p] = 255

IsSolid(img) == \A p \in DOMAIN img.px : img.px[p] = img.px[0]

SolidRun ==
  /\ IsSolid(selectedFile) /\ selectedFile.w >= 3 /\ selectedFile.h >= 3
  /\ runOptions = DefaultOptions
  /\ pc \notin {"idle", "loading"}

\* C8: for a solid-colour image of at least 3x3 pixels under the default
\* options, no pixel is edge-flagged, the single bucket's count exceeds 5% of
\* the pixel count, and the final alpha is 0 at every pixel.
C8_SolidIsBackground ==
  SolidRun =>
    /\ EdgePixels(workingData, width, height) = {}
    /\ \A p \in Pixels :
         EdgeMask(workingData, width, height, runOptions.edgeSensitivity)[p] = 0
    /\ LET hist == ColorHistogram(workingData, width, height)
       IN /\ Cardinality(DOMAIN hist) = 1
          /\ \A k \in DOMAIN hist : 20 * hist[k].count > width * height
    /\ HasRun("applyMaskToImage") => \A p \in Pixels : AlphaAt(data, p) = 0

C8_Witness ==
  /\ SolidRun
  /\ selectedFile = SolidImage(4, 4, Red)
  /\ pc = "putImageData"
  /\ \A p \in Pixels : AlphaAt(data, p) = 0

\* C9: featherMaskEdges leaves every pixel whose alpha on entry is 0 or 255
\* unchanged in all four channels, so a buffer whose alphas are all 0 or 255 is
\* unchanged, for every featherAmount in 1..8.
C9_FeatherKeepsBinary ==
  pc = "putImageData" /\ HasRun("featherMaskEdges") =>
    /\ DOMAIN data = DOMAIN dataIn
    /\ \A p \in Pixels :
         Binary(AlphaAt(dataIn, p)) =>
           \A k \in 0..3 : data[p * 4 + k] = dataIn[p * 4 + k]
    /\ (\A p \in Pixels : Binary(AlphaAt(dataIn, p))) => data = dataIn

C9_Witness ==
  /\ pc = "putImageData" /\ HasRun("featherMaskEdges")
  /\ \E p \in Pixels : AlphaAt(dataIn, p) = 128 /\ AlphaAt(data, p) # 128
  /\ \E p \in Pixels : AlphaAt(dataIn, p) = 0

C11_RefineMaskBoundaries ==
  pc = "refined" =>
    /\ DOMAIN data = DOMAIN dataIn
    /\ \A p \in Pixels :
         /\ AlphaAt(dataIn, p) = 0 => AlphaAt(data, p) = 0
         /\ AlphaAt(dataIn, p) = 255 => AlphaAt(data, p) = 255
         /\ \A k \in 0..2 : data[p * 4 + k] = dataIn[p * 4 + k]

C11_Witness ==
  /\ pc = "refined"
  /\ runOptions.maskContrast = 5
  /\ \E p \in Pixels : AlphaAt(dataIn, p) = 255 /\ AlphaAt(data, p) = 255
  /\ \E p \in Pixels : AlphaAt(dataIn, p) = 0 /\ AlphaAt(data, p) = 0

\* ------------------------------------------------------- claims: processBatch
ImageWithId(id) == images[CHOOSE i \in DOMAIN images : images[i].id = id]
Rejected(o) == o[2] \in RejectMessages

\* a call of processBatch has returned
CallEnded == batchPc = "idle" /\ atCall # None

\* the images the call was asked to process
TargetIds ==
  IF atCall.selectedImages # {}
  THEN Ids(atCall.images) \cap atCall.selectedImages
  ELSE Ids(atCall.images)

\* C12: an image whose processImage call failed has status 'error' and the
\* error message from then on; the loop goes on, so when the batch ends every
\* image it was to process has had its processImage call and has status
\* 'completed' or 'error', and isProcessing is false again.
C12_GracefulFailure ==
  /\ \A k \in DOMAIN outcomes :
       LET img == ImageWithId(outcomes[k][1])
       IN IF Rejected(outcomes[k])
          THEN img.status = "error" /\ img.error = outcomes[k][2]
          ELSE img.status = "completed" /\ img.converted = "blob"
  /\ batchPc # "idle" => isProcessing
  /\ CallEnded /\ outcomes # <<>> =>
       /\ ~isProcessing
       /\ Len(outcomes) = Len(imagesToProcess)
       /\ \A k \in DOMAIN outcomes : outcomes[k][1] = imagesToProcess[k].id
       /\ \A id \in TargetIds : ImageWithId(id).status \in {"completed", "error"}

C12_Witness ==
  /\ CallEnded
  /\ \E j, k \in DOMAIN outcomes :
       j < k /\ Rejected(outcomes[j]) /\ ~Rejected(outcomes[k])
  /\ \E id \in TargetIds : ImageWithId(id).status = "error"

\* C13 as claimed: every call of processBatch processes exactly the selected
\* images (all images when none is selected) and leaves the others alone.
C13_Claimed ==
  CallEnded =>
    /\ {outcomes[k][1] : k \in DOMAIN outcomes} = TargetIds
    /\ \A i \in DOMAIN images :
         images[i].id \notin TargetIds => images[i] = atCall.images[i]

\* C13 amended: when every image to process has its dimensions loaded, the
\* call processes exactly the selected images (all images when none is
\* selected), each once and in list order; when one of them has no dimensions
\* yet, the call processes no image and changes none.  An image outside that
\* set is never changed by the call.
C13_Selective ==
  atCall # None =>
    /\ DOMAIN images = DOMAIN atCall.images
    /\ \A i \in DOMAIN images :
         images[i].id \notin TargetIds => images[i] = atCall.images[i]
    /\ \A j, k \in DOMAIN outcomes : outcomes[j][1] = outcomes[k][1] => j = k
    /\ {outcomes[k][1] : k \in DOMAIN outcomes} \subseteq TargetIds
    /\ CallEnded =>
         IF \E i \in DOMAIN atCall.images :
              /\ atCall.images[i].id \in TargetIds
              /\ atCall.images[i].originalWidth = 0
         THEN outcomes = <<>> /\ images = atCall.images
         ELSE {outcomes[k][1] : k \in DOMAIN outcomes} = TargetIds

C13_Witness ==
  /\ CallEnded
  /\ Len(outcomes) = 2
  /\ Cardinality(atCall.selectedImages) = 2
  /\ selectedImages # atCall.selectedImages
  /\ \E i \in DOMAIN images :
       images[i].id \notin TargetIds /\ images[i].status = "completed"

\* --------------------------------------------------- claims: the pipeline
\* the red byte of pixel (x + dx, y + dy)
RedAt(d, w, p, dx, dy) == d[(p + dy * w + dx) * 4]

\* the 3x3 Sobel kernels on the red channel, centred on p
SobelGx(d, w, p) ==
  (0 - RedAt(d, w, p, -1, -1)) + RedAt(d, w, p, 1, -1)
    + (0 - 2 * RedAt(d, w, p, -1, 0)) + 2 * RedAt(d, w, p, 1, 0)
    + (0 - RedAt(d, w, p, -1, 1)) + RedAt(d, w, p, 1, 1)

SobelGy(d, w, p) ==
  (0 - RedAt(d, w, p, -1, -1)) + (0 - 2 * RedAt(d, w, p, 0, -1))
    + (0 - RedAt(d, w, p, 1, -1))
    + RedAt(d, w, p, -1, 1) + 2 * RedAt(d, w, p, 0, 1) + RedAt(d, w, p, 1, 1)

SobelEdgeValue(d, w, p, sensitivity) ==
  IF 4 * (SobelGx(d, w, p) * SobelGx(d, w, p) + SobelGy(d, w, p) * SobelGy(d, w, p))
       > 2601 * sensitivity * sensitivity
  THEN 255 ELSE 0

\* C14 as claimed: for every interior pixel the edge value computed by
\* refineMaskWithEdges equals the one of the 3x3 Sobel kernels on the red
\* channel, thresholded at 255 * edgeSensitivity.
C14_Claimed ==
  pc = "applyMorphologicalOperations" /\ HasRun("refineMaskWithEdges") =>
    \A p \in Interior(width, height) :
      EdgeValue(workingData, width, p, runOptions.edgeSensitivity)
        = SobelEdgeValue(workingData, width, p, runOptions.edgeSensitivity)

\* C15 as claimed: a removal applies refineMask to the composited alpha before
\* the result is produced exactly when the refineMask option is set.
C15_Claimed ==
  pc = "putImageData" => (runOptions.refineMask <=> HasRun("refineMask"))

\* C18 as claimed: among the removals of one image under the four methods, all
\* other options equal, at least two run different stage sequences.
C18_Claimed ==
  (\A m \in Methods : stageLog[m] # None) =>
    \E m1, m2 \in Methods : stageLog[m1] # stageLog[m2]

\* the stages of one removal under options o, in order
ExpectedStages(o) ==
  <<"createInitialMask", "refineMaskWithEdges", "applyMorphologicalOperations",
    "applyMaskToImage">>
    \o (IF o.featherEdges THEN <<"featherMaskEdges">> ELSE <<>>)

\* C16: a removal runs createInitialMask, refineMaskWithEdges,
\* applyMorphologicalOperations and applyMaskToImage once each and in this
\* order, then featherMaskEdges once exactly when featherEdges is set, and only
\* then produces its result: at every moment the stages run so far are a prefix
\* of that sequence and the stage about to run is the next one of it.
C16_StageOrder ==
  LET expected == ExpectedStages(runOptions)
      n == Len(stagesRun)
  IN /\ n <= Len(expected)
     /\ stagesRun = SubSeq(expected, 1, n)
     /\ pc \in Range(expected) => pc = expected[n + 1]
     /\ pc = "loading" => n = 0
     /\ pc = "featherMaskEdges" => n = 4
     /\ pc = "putImageData" => stagesRun = expected
     /\ pc = "idle" /\ n > 0 => stagesRun = expected
     /\ pendingBlobs # <<>> => pc = "idle" /\ stagesRun = expected

C16_Witness ==
  /\ pc = "putImageData"
  /\ Len(stagesRun) = 4
  /\ stageLog["auto"] # None /\ Len(stageLog["auto"]) = 5

\* the colour bucket of pixel p: each channel divided by 8, rounded down
BucketOf(d, p) == <<d[p * 4] \div 8, d[p * 4 + 1] \div 8, d[p * 4 + 2] \div 8>>
BucketCount(d, w, h, b) == Cardinality({q \in Interior(w, h) : BucketOf(d, q) = b})
InteriorBuckets(d, w, h) == {BucketOf(d, q) : q \in Interior(w, h)}

\* an interior pixel whose summed absolute per-channel difference to its four
\* direct neighbours exceeds 100
EdgeFlagged(d, w, h, p) ==
  /\ p \in Interior(w, h)
  /\ LET diff(q) == Abs(d[p * 4] - d[q * 4]) + Abs(d[p * 4 + 1] - d[q * 4 + 1])
                      + Abs(d[p * 4 + 2] - d[q * 4 + 2])
     IN diff(p - 1) + diff(p + 1) + diff(p - w) + diff(p + w) > 100

\* the squared distance of the colour of p to the centre of bucket b
CentreDistance2(d, p, b) ==
  (d[p * 4] - b[1] * 8) * (d[p * 4] - b[1] * 8)
    + (d[p * 4 + 1] - b[2] * 8) * (d[p * 4 + 1] - b[2] * 8)
    + (d[p * 4 + 2] - b[3] * 8) * (d[p * 4 + 2] - b[3] * 8)

\* C17: createInitialMask sets mask[p] = 0 exactly when p is not edge-flagged
\* and one of five highest-count interior colour buckets has a count above 5%
\* of width * height and its de-quantized centre at Euclidean RGB distance
\* below colorThreshold from the colour of p; every other pixel gets 255.
\* (Five buckets none of which is outnumbered by a bucket left out.)
C17_InitialMaskRule ==
  pc = "refineMaskWithEdges" =>
    LET d == workingData
        buckets == InteriorBuckets(d, width, height)
        count(b) == BucketCount(d, width, height, b)
        t == runOptions.colorThreshold
    IN \E top \in SUBSET buckets :
         /\ Cardinality(top) = Min2(5, Cardinality(buckets))
         /\ \A a \in top : \A b \in buckets \ top : count(a) >= count(b)
         /\ \A p \in Pixels :
              /\ mask[p] \in {0, 255}
              /\ mask[p] = 0 <=>
                   /\ ~EdgeFlagged(d, width, height, p)
                   /\ \E b \in top : /\ 20 * count(b) > width * height
                                     /\ CentreDistance2(d, p, b) < t * t

C17_Witness ==
  /\ pc = "refineMaskWithEdges"
  /\ \E p \in Pixels : mask[p] = 0
  /\ \E p \in Pixels :
       /\ EdgeFlagged(workingData, width, height, p)
       /\ mask[p] = 255
       /\ 20 * BucketCount(workingData, width, height, BucketOf(workingData, p))
            > width * height

\* ---------------------------------- claims: applyMorphologicalOperations
OnRing(p) ==
  \/ p % width = 0 \/ p % width = width - 1
  \/ p \div width = 0 \/ p \div width = height - 1

\* the pixels of the 3x3 block centred on p
Around(p) ==
  {q \in Pixels : /\ Abs((q % width) - (p % width)) <= 1
                  /\ Abs((q \div width) - (p \div width)) <= 1}

Least(S) == CHOOSE v \in S : \A u \in S : v <= u
Greatest(S) == CHOOSE v \in S : \A u \in S : v >= u

\* C19: applyMorphologicalOperations leaves every pixel of the outermost ring
\* at its value on entry; an interior pixel gets the maximum over its 3x3
\* neighbourhood of the eroded mask, whose value is the minimum over the 3x3
\* neighbourhood of the entry mask at an interior pixel and the entry value at
\* a ring pixel.
C19_MorphFrame ==
  pc = "applyMaskToImage" =>
    LET eroded == [p \in Pixels |->
                     IF OnRing(p) THEN maskIn[p]
                     ELSE Least({maskIn[q] : q \in Around(p)})]
    IN /\ DOMAIN mask = DOMAIN maskIn
       /\ \A p \in Pixels :
            mask[p] = IF OnRing(p) THEN maskIn[p]
                      ELSE Greatest({eroded[q] : q \in Around(p)})

C19_Witness ==
  /\ pc = "applyMaskToImage"
  /\ \E p \in Pixels : OnRing(p) /\ maskIn[p] = 255 /\ mask[p] = 255
  /\ \E p \in Pixels : ~OnRing(p) /\ maskIn[p] = 0 /\ mask[p] = 255
  /\ \E p \in Pixels : ~OnRing(p) /\ maskIn[p] = 255 /\ mask[p] = 0

\* the mask is 255 exactly on the rectangle of columns x0..x1 and rows y0..y1
IsRectangle(m, x0, x1, y0, y1) ==
  \A p \in DOMAIN m :
    m[p] = IF /\ x0 <= p % width /\ p % width <= x1
              /\ y0 <= p \div width /\ p \div width <= y1
           THEN 255 ELSE 0

Columns == 0..(width - 1)
Rows == 0..(height - 1)

\* C20 as claimed: a mask whose foreground is one solid rectangle of at least
\* 3x3 pixels on a background of 0 comes back unchanged.
C20_Claimed ==
  pc = "applyMaskToImage" =>
    \A x0, x1 \in Columns : \A y0, y1 \in Rows :
      /\ x1 - x0 >= 2 /\ y1 - y0 >= 2
      /\ IsRectangle(maskIn, x0, x1, y0, y1)
      => mask = maskIn

\* C20 amended: a mask whose foreground is one solid rectangle of at least 3x3
\* pixels that has no pixel on the outermost ring, on a background of 0, comes
\* back unchanged.
C20_InteriorRectangle ==
  pc = "applyMaskToImage" =>
    \A x0, x1 \in Columns : \A y0, y1 \in Rows :
      /\ x1 - x0 >= 2 /\ y1 - y0 >= 2
      /\ x0 >= 1 /\ x1 <= width - 2 /\ y0 >= 1 /\ y1 <= height - 2
      /\ IsRectangle(maskIn, x0, x1, y0, y1)
      => mask = maskIn

C20_Witness ==
  /\ pc = "applyMaskToImage"
  /\ \E x0, x1 \in Columns : \E y0, y1 \in Rows :
       /\ x1 - x0 >= 2 /\ y1 - y0 >= 2
       /\ x0 >= 1 /\ x1 <= width - 2 /\ y0 >= 1 /\ y1 <= height - 2
       /\ IsRectangle(maskIn, x0, x1, y0, y1)
       /\ mask = maskIn

\* ------------------------------------------------ claims: post-processing
\* the buffer a removal of img under options o puts on the canvas when the
\* feathering is left out
WithoutFeather(img, o) ==
  LET d == GetImageData(img)
      m1 == CreateInitialMask(d, img.w, img.h, o.colorThreshold)
      m2 == RefineMaskWithEdges(m1, d, img.w, img.h, o.edgeSensitivity)
      m3 == ApplyMorphologicalOperations(m2, img.w, img.h)
  IN ApplyMaskToImage(d, m3)

C22_NoInteriorAllForeground ==
  pc = "refineMaskWithEdges" /\ (width < 3 \/ height < 3) =>
    /\ DOMAIN mask = Pixels
    /\ \A p \in Pixels : mask[p] = 255

C22_Witness ==
  /\ pc = "refineMaskWithEdges"
  /\ width = 2 /\ height = 4
  /\ ~IsSolid(selectedFile)
  /\ \A p \in Pixels : mask[p] = 255

\* C23: after applyMaskToImage the alpha byte data[px * 4 + 3] of every pixel
\* px in 0..width*height-1 equals mask[px], and the mask is still the one
\* applyMorphologicalOperations returned.
C23_AlphaIsMask ==
  pc = "featherMaskEdges" =>
    /\ DOMAIN data = 0..(width * height * 4 - 1)
    /\ \A px \in Pixels : data[px * 4 + 3] = mask[px]
    /\ mask = ApplyMorphologicalOperations(maskIn, width, height)

C23_Witness ==
  /\ pc = "featherMaskEdges"
  /\ \E px \in Pixels : dataIn[px * 4 + 3] = 128 /\ data[px * 4 + 3] = 255
  /\ \E px \in Pixels : dataIn[px * 4 + 3] = 255 /\ data[px * 4 + 3] = 0

\* --------------------------------------------- claims: reads and opening
\* C24 as claimed: every read of the buffer made for gx and gy of an interior
\* pixel is at an index inside the buffer.
C24_Claimed ==
  pc = "applyMorphologicalOperations" /\ HasRun("refineMaskWithEdges") =>
    \A p \in Interior(width, height) :
      \A i \in GxReads(width, p) \cup GyReads(width, p) :
        0 <= i /\ i < width * height * 4

\* the ring pixels among the 8 neighbours of p
RingAround(p) == {q \in Around(p) : OnRing(q)}

C26_Idempotent ==
  pc = "applyMaskToImage" =>
    ApplyMorphologicalOperations(mask, width, height) = mask

C26_Witness ==
  /\ pc = "applyMaskToImage"
  /\ mask # maskIn
  /\ \E p \in Pixels : ~OnRing(p) /\ maskIn[p] = 255 /\ mask[p] = 255
  /\ \E p \in Pixels : OnRing(p) /\ mask[p] = 255
  /\ \E p \in Pixels : mask[p] = 0
  /\ ApplyMorphologicalOperations(mask, width, height) = mask

\* ------------------------------------------------- claims: the busy flags
\* C27 as claimed: whenever isRemovingBackground is true it is eventually
\* false again.
C27_Claimed == (isRemovingBackground = TRUE) ~> (isRemovingBackground = FALSE)

\* the busy flag is reset on every path on which the load event arrives
C27_ResetUnlessLoadFails ==
  (isRemovingBackground = TRUE) ~>
    (isRemovingBackground = FALSE \/ pc = "awaitingOnload")

\* C28 as claimed: while a conversion is in flight isConverting is true, and
\* no second conversion is in flight at the same time.
C28_Claimed ==
  /\ InFlight # {} => isConverting = TRUE
  /\ Cardinality(InFlight) <= 1

\* ------------------------------------------- claims: editing the batch list
\* C29 as claimed: applySettingsToSelected leaves every selected image with
\* the current globalSettings and every other image with its settings.
C29_Claimed ==
  [][ApplySettingsToSelected =>
       /\ DOMAIN images' = DOMAIN images
       /\ \A i \in DOMAIN images :
            images'[i].settings = IF images[i].id \in selectedImages
                                  THEN globalSettings
                                  ELSE images[i].settings]_vars

ImageOf(id) == images[CHOOSE i \in DOMAIN images : images[i].id = id]

\* C30 as claimed: the list holds no image that was removed, and holds every
\* image whose dimensions were loaded and that was not removed, with its
\* dimensions.
C30_Claimed ==
  /\ Ids(images) \cap removedIds = {}
  /\ \A id \in loadedIds \ removedIds :
       id \in Ids(images) /\ ImageOf(id).originalWidth > 0

====
